---- MODULE Spec2Model ----
(***************************************************************************)
(* Model of detection/models/bbox_heads/bbox_head.py: the detection        *)
(* decoding of BBoxHead (__init__, _get_bboxes_single).                    *)
(*                                                                         *)
(* Number representation.  Tensors hold exact fixed-point integers:        *)
(*   - probabilities are percentages (0.7 is 70);                          *)
(*   - normalized coordinates are multiples of 1/One (1.0 is One);         *)
(*   - pixel coordinates are multiples of 1/One pixel;                     *)
(*   - IoU thresholds are fractions [num, den];                            *)
(*   - target_stds/target_means are tenths; the two log-size components of *)
(*     a delta are measured in units of ln 2, so that exp() of the         *)
(*     de-standardised value is a power of two.                            *)
(* All arithmetic is exact; non-finite floating point values (overflow of  *)
(* exp) are outside this model.                                            *)
(* Region indices are 1-based here (0-based in the code); class ids are    *)
(* 0-based as in the code, class c is column c + 1 of a row of scores.     *)
(* TensorFlow operations are modelled by their documented result on the    *)
(* index sets and sequences they compute; the shapes of the tensors (the   *)
(* rank of the stacked tf.map_fn result, rows of unequal length) are not   *)
(* modelled, so a call here returns in cases where the library may raise.  *)
(* The names `deltas` (line 119) and `config` (line 166) are free in       *)
(* _get_bboxes_single: they are looked up in the module's globals, which   *)
(* bbox_head.py never binds, so the lookup raises NameError unless other   *)
(* code of the process has bound them.                                     *)
(***************************************************************************)
EXTENDS Integers, Sequences, FiniteSets, TLC

VARIABLES self, module_globals, args, outcome

vars == <<self, module_globals, args, outcome>>

(* Largest number of regions of one image. *)
MaxRois == 2

(* The fixed-point value of the normalized coordinate 1.0. *)
One == 8

(* A name that is not bound, and the binding of a name to a value. *)
Unbound == <<>>
Bound(value) == <<value>>

(* No BBoxHead is constructed yet. *)
NoHead == <<>>

----------------------------------------------------------------------------
(* Generic helpers for the tensor operations.                               *)

Min2(a, b) == IF a <= b THEN a ELSE b
Max2(a, b) == IF a >= b THEN a ELSE b

SetMin(S) == CHOOSE x \in S : \A y \in S : x <= y

RECURSIVE SortedSeq(_)
(* The ascending sequence of a finite set of integers: the dense result of *)
(* a set operation, and the result of tf.where on a vector.                *)
SortedSeq(S) ==
    IF S = {} THEN <<>> ELSE <<SetMin(S)>> \o SortedSeq(S \ {SetMin(S)})

Range(s) == {s[i] : i \in DOMAIN s}

(* tf.gather(params, indices) on the first axis. *)
Gather(params, indices) == [i \in DOMAIN indices |-> params[indices[i]]]

(* tf.where(cond)[:, 0] for a vector of booleans. *)
Where(cond) == SortedSeq({i \in DOMAIN cond : cond[i]})

(* tf.sets.set_intersection of two rows followed by sparse_tensor_to_dense. *)
SetIntersection(a, b) == SortedSeq(Range(a) \cap Range(b))

RECURSIVE UniqueFrom(_, _)
UniqueFrom(s, seen) ==
    IF s = <<>> THEN <<>>
    ELSE IF Head(s) \in seen THEN UniqueFrom(Tail(s), seen)
    ELSE <<Head(s)>> \o UniqueFrom(Tail(s), seen \cup {Head(s)})

(* tf.unique(x)[0]: the distinct values in order of first appearance. *)
Unique(s) == UniqueFrom(s, {})

(* tf.argmax(row): the class id (0-based) of the largest entry, the first   *)
(* such entry when several are equal.                                       *)
ArgMax(row) ==
    (CHOOSE c \in DOMAIN row :
        /\ \A d \in DOMAIN row : row[d] <= row[c]
        /\ \A d \in DOMAIN row : row[d] = row[c] => c <= d) - 1

----------------------------------------------------------------------------
(* detection.core.bbox.transforms: delta2bbox and bbox_clip.                *)

(* h * exp(k ln 2) for a size h. *)
ScaleSize(h, k) == IF k >= 0 THEN h * (2 ^ k) ELSE h \div (2 ^ (0 - k))

(* transforms.delta2bbox for one region: undo the standardisation of the    *)
(* delta, move the centre by delta[0:2] * size, scale the size by           *)
(* exp(delta[2:4]) and go back to corner form <<y1, x1, y2, x2>>.           *)
delta2bbox(box, delta, target_means, target_stds) ==
    LET d == [i \in 1..4 |-> delta[i] * target_stds[i] + target_means[i]]
        height == box[3] - box[1]
        width == box[4] - box[2]
        center_y == box[1] + (height \div 2) + ((d[1] * height) \div 10)
        center_x == box[2] + (width \div 2) + ((d[2] * width) \div 10)
        new_height == ScaleSize(height, d[3] \div 10)
        new_width == ScaleSize(width, d[4] \div 10)
        y1 == center_y - (new_height \div 2)
        x1 == center_x - (new_width \div 2)
    IN  <<y1, x1, y1 + new_height, x1 + new_width>>

(* transforms.bbox_clip for one region: every coordinate is clamped into    *)
(* the window <<wy1, wx1, wy2, wx2>>.                                       *)
bbox_clip(box, window) ==
    <<Max2(Min2(box[1], window[3]), window[1]),
      Max2(Min2(box[2], window[4]), window[2]),
      Max2(Min2(box[3], window[3]), window[1]),
      Max2(Min2(box[4], window[4]), window[2])>>

----------------------------------------------------------------------------
(* tf.image.non_max_suppression and tf.nn.top_k.                            *)

Area(b) == (Max2(b[1], b[3]) - Min2(b[1], b[3])) * (Max2(b[2], b[4]) - Min2(b[2], b[4]))

Intersection(a, b) ==
    Max2(0, Min2(Max2(a[1], a[3]), Max2(b[1], b[3])) - Max2(Min2(a[1], a[3]), Min2(b[1], b[3])))
  * Max2(0, Min2(Max2(a[2], a[4]), Max2(b[2], b[4])) - Max2(Min2(a[2], a[4]), Min2(b[2], b[4])))

(* Intersection over union of two boxes as a fraction; 0 when a box is      *)
(* empty.                                                                   *)
IoU(a, b) ==
    IF Area(a) <= 0 \/ Area(b) <= 0
    THEN [num |-> 0, den |-> 1]
    ELSE [num |-> Intersection(a, b), den |-> Area(a) + Area(b) - Intersection(a, b)]

(* f > g and f >= g for fractions with positive denominators. *)
FracGT(f, g) == f.num * g.den > g.num * f.den
FracGE(f, g) == f.num * g.den >= g.num * f.den

(* The test by which a selected box suppresses a candidate. *)
Suppresses(selected_box, box, iou_threshold) ==
    FracGT(IoU(selected_box, box), iou_threshold)

RECURSIVE NmsFrom(_, _, _, _, _, _)
(* The greedy loop: take the best remaining candidate, select it unless a   *)
(* selected box suppresses it, stop at max_output_size selections.  Which   *)
(* of several candidates of equal score is taken first is not specified:    *)
(* every order is an outcome.                                               *)
NmsFrom(remaining, selected, boxes, scores, max_output_size, iou_threshold) ==
    IF Len(selected) >= max_output_size \/ remaining = {}
    THEN {selected}
    ELSE UNION {
        NmsFrom(remaining \ {c},
                IF \E j \in DOMAIN selected :
                       Suppresses(boxes[selected[j]], boxes[c], iou_threshold)
                THEN selected ELSE Append(selected, c),
                boxes, scores, max_output_size, iou_threshold)
        : c \in {x \in remaining : \A y \in remaining : scores[y] <= scores[x]} }

(* tf.image.non_max_suppression: the set of index sequences it can return,  *)
(* each in order of selection.                                              *)
non_max_suppression(boxes, scores, max_output_size, iou_threshold) ==
    NmsFrom(DOMAIN boxes, <<>>, boxes, scores, max_output_size, iou_threshold)

(* The position taken first by a top-k selection: the largest value, the    *)
(* lowest position among equal values.                                      *)
Best(values, left) ==
    CHOOSE i \in left :
        \A j \in left : values[j] < values[i] \/ (values[j] = values[i] /\ i <= j)

RECURSIVE TopKFrom(_, _, _)
TopKFrom(values, left, k) ==
    IF k <= 0 \/ left = {} THEN <<>>
    ELSE <<Best(values, left)>> \o TopKFrom(values, left \ {Best(values, left)}, k - 1)

(* tf.nn.top_k(values, k, sorted=True)[1]: the positions of the k largest   *)
(* values by descending value.                                              *)
top_k(values, k) == TopKFrom(values, DOMAIN values, k)

----------------------------------------------------------------------------
(* BBoxHead._get_bboxes_single, statement by statement.                     *)

(* class_ids = tf.argmax(rcnn_probs, axis=1) *)
ClassIds(rcnn_probs) == [i \in DOMAIN rcnn_probs |-> ArgMax(rcnn_probs[i])]

(* class_scores = tf.gather_nd(rcnn_probs, indices) *)
ClassScores(rcnn_probs, class_ids) ==
    [i \in DOMAIN rcnn_probs |-> rcnn_probs[i][class_ids[i] + 1]]

(* deltas_specific = tf.gather_nd(deltas, indices) *)
DeltasSpecific(deltas, class_ids) ==
    [i \in DOMAIN class_ids |-> deltas[i][class_ids[i] + 1]]

(* window = [0., 0., H/H, W/W] *)
Window(img_shape) ==
    <<0, 0, (img_shape[1] * One) \div img_shape[1], (img_shape[2] * One) \div img_shape[2]>>

(* refined_rois before the clip: transforms.delta2bbox on every region. *)
DecodedRois(rois, deltas_specific, target_means, target_stds) ==
    [i \in DOMAIN rois |-> delta2bbox(rois[i], deltas_specific[i], target_means, target_stds)]

(* refined_rois = transforms.bbox_clip(refined_rois, window) *)
RefinedRois(decoded_rois, window) ==
    [i \in DOMAIN decoded_rois |-> bbox_clip(decoded_rois[i], window)]

(* The background filter with >= for >: background regions pass. *)
BackgroundKeepAll(class_ids) == Where([i \in DOMAIN class_ids |-> class_ids[i] >= 0])

(* keep = tf.where(class_ids > 0)[:, 0] *)
BackgroundKeep(class_ids) == Where([i \in DOMAIN class_ids |-> class_ids[i] > 0])

(* The confidence filter with the comparison turned round. *)
ConfKeepBelow(class_scores, min_confidence) ==
    Where([i \in DOMAIN class_scores |-> class_scores[i] <= min_confidence])

(* conf_keep = tf.where(class_scores >= self.min_confidence)[:, 0] *)
ConfKeep(class_scores, min_confidence) ==
    Where([i \in DOMAIN class_scores |-> class_scores[i] >= min_confidence])

(* keep after the two filters; `if self.min_confidence:` is false for 0. *)
FilterKeep(class_ids, class_scores, min_confidence) ==
    IF min_confidence # 0
    THEN SetIntersection(BackgroundKeep(class_ids), ConfKeep(class_scores, min_confidence))
    ELSE BackgroundKeep(class_ids)

(* nms_keep_map without the suppression: every candidate of the class. *)
nms_keep_map_all(class_id, keep, pre_nms_class_ids, pre_nms_scores, pre_nms_rois, max_instances, nms_threshold) ==
    {Gather(keep, Where([i \in DOMAIN pre_nms_class_ids |-> pre_nms_class_ids[i] = class_id]))}

(* nms_keep_map(class_id): the region indices non-maximum suppression keeps *)
(* among the candidates of one class; one sequence per outcome of the       *)
(* suppression.                                                             *)
nms_keep_map(class_id, keep, pre_nms_class_ids, pre_nms_scores, pre_nms_rois, max_instances, nms_threshold) ==
    LET ixs == Where([i \in DOMAIN pre_nms_class_ids |-> pre_nms_class_ids[i] = class_id])
    IN  { Gather(keep, Gather(ixs, class_keep)) :
            class_keep \in non_max_suppression(Gather(pre_nms_rois, ixs),
                                               Gather(pre_nms_scores, ixs),
                                               max_instances, nms_threshold) }

RECURSIVE MapNmsKeep(_, _, _, _, _, _, _)
(* tf.map_fn(nms_keep_map, unique_pre_nms_class_ids): the rows of the       *)
(* result, one after the other.                                             *)
MapNmsKeep(class_id_list, keep, pre_nms_class_ids, pre_nms_scores, pre_nms_rois, max_instances, nms_threshold) ==
    IF class_id_list = <<>> THEN {<<>>}
    ELSE { first \o rest :
             first \in nms_keep_map(Head(class_id_list), keep, pre_nms_class_ids,
                                    pre_nms_scores, pre_nms_rois,
                                    max_instances, nms_threshold),
             rest \in MapNmsKeep(Tail(class_id_list), keep, pre_nms_class_ids,
                                 pre_nms_scores, pre_nms_rois,
                                 max_instances, nms_threshold) }

(* The per-class NMS of the kept regions: the possible values of nms_keep. *)
NmsKeep(keep, class_ids, class_scores, refined_rois, max_instances, nms_threshold) ==
    MapNmsKeep(Unique(Gather(class_ids, keep)), keep,
               Gather(class_ids, keep), Gather(class_scores, keep),
               Gather(refined_rois, keep), max_instances, nms_threshold)

(* The truncation without the ranking: the first roi_count of keep. *)
KeepTopUnranked(keep, class_scores, roi_count) ==
    SubSeq(keep, 1, Min2(Len(keep), roi_count))

(* "Keep top detections": the roi_count best of keep by score. *)
KeepTop(keep, class_scores, roi_count) ==
    Gather(keep, top_k(Gather(class_scores, keep), Min2(Len(keep), roi_count)))

(* The scaling with height and width exchanged: [W, H, W, H]. *)
ToImageSwapped(box, img_shape) ==
    <<box[1] * img_shape[2], box[2] * img_shape[1],
      box[3] * img_shape[2], box[4] * img_shape[1]>>

(* refined_rois * [H, W, H, W] for one box. *)
ToImage(box, img_shape) ==
    <<box[1] * img_shape[1], box[2] * img_shape[2],
      box[3] * img_shape[1], box[4] * img_shape[2]>>

(* detections: one row (y1, x1, y2, x2, class_id, score) per kept region. *)
Detections(refined_rois, class_ids, class_scores, keep, img_shape) ==
    [j \in DOMAIN keep |->
        [box |-> ToImage(refined_rois[keep[j]], img_shape),
         class_id |-> class_ids[keep[j]],
         score |-> class_scores[keep[j]]]]

----------------------------------------------------------------------------
(* The inputs the operations are called with.                               *)

(* Rows of class probabilities (background, class 1, class 2), in percent. *)
ProbRows == {<<90, 5, 5>>, <<5, 90, 5>>, <<5, 5, 90>>, <<30, 60, 10>>}

(* Region proposals <<y1, x1, y2, x2>>: the whole image, its upper half,    *)
(* its lower half and a region of height 0.                                 *)
Regions == {<<0, 0, One, One>>, <<0, 0, One \div 2, One>>, <<One \div 2, 0, One, One>>, <<One \div 2, 0, One \div 2, One>>}

ZeroDelta == <<0, 0, 0, 0>>
GrowDelta == <<0, 0, 5, 5>>
ShiftGrowDelta == <<5, 0, 5, 5>>

(* The deltas of one region, a row per class. *)
ZeroClassDeltas == <<ZeroDelta, ZeroDelta, ZeroDelta>>
MixedClassDeltas == <<GrowDelta, ZeroDelta, ShiftGrowDelta>>

(* Delta tensors [num_rois, num_classes, 4] with n regions. *)
DeltaTensors(n) == {[i \in 1..n |-> ZeroClassDeltas], [i \in 1..n |-> MixedClassDeltas]}

ImgShapes == {<<2, 3>>}

(* Arguments of the constructor: min_confidence unset (0) or 0.7,           *)
(* nms_threshold 0.5 and max_instances 1 or 2, and three configurations    *)
(* with a negative nms_threshold or a max_instances of 0.                   *)
MinConfidences == {0, 70}
HalfThreshold == [num |-> 1, den |-> 2]
NegativeThreshold == [num |-> 0 - 1, den |-> 10]
HeadArguments ==
    {[min_confidence |-> c, nms_threshold |-> HalfThreshold, max_instances |-> m] : c \in MinConfidences, m \in {1, 2}}
    \cup {[min_confidence |-> 70, nms_threshold |-> NegativeThreshold, max_instances |-> 1],
          [min_confidence |-> 70, nms_threshold |-> HalfThreshold, max_instances |-> 0],
          [min_confidence |-> 0, nms_threshold |-> NegativeThreshold, max_instances |-> 0]}

(* Values the module's global names can be bound to. *)
GlobalDeltas == {[i \in 1..MaxRois |-> MixedClassDeltas]}
GlobalMaxInstances == {1, 2}

NoArgs == [rcnn_probs |-> <<>>, rcnn_deltas |-> <<>>, rois |-> <<>>, img_shape |-> <<>>]

NoOutcome == [status |-> "none", error |-> "", class_ids |-> <<>>, class_scores |-> <<>>, decoded_rois |-> <<>>, refined_rois |-> <<>>, filter_keep |-> <<>>, nms_keep |-> <<>>, keep |-> <<>>, detections |-> <<>>]

Raised(error) == [NoOutcome EXCEPT !.status = "raised", !.error = error]

----------------------------------------------------------------------------
(* The operations.                                                          *)

Init ==
    /\ self = NoHead
    /\ module_globals = [deltas |-> Unbound, config |-> Unbound]
    /\ args = NoArgs
    /\ outcome = NoOutcome

(* BBoxHead.__init__: the arguments are stored as given. *)
BBoxHead(min_confidence, nms_threshold, max_instances) ==
    /\ self = NoHead
    /\ self' = <<[min_confidence |-> min_confidence,
                  nms_threshold |-> nms_threshold,
                  max_instances |-> max_instances,
                  target_means |-> <<0, 0, 0, 0>>,
                  target_stds |-> <<1, 1, 2, 2>>]>>
    /\ UNCHANGED <<module_globals, args, outcome>>

(* The program binds a name of the module's global namespace, between two   *)
(* calls.                                                                   *)
BindDeltas(value) ==
    /\ outcome.status = "none"
    /\ module_globals' = [module_globals EXCEPT !.deltas = Bound(value)]
    /\ UNCHANGED <<self, args, outcome>>

BindConfig(detection_max_instances) ==
    /\ outcome.status = "none"
    /\ module_globals' = [module_globals EXCEPT !.config = Bound(detection_max_instances)]
    /\ UNCHANGED <<self, args, outcome>>

(* The result of _get_bboxes_single once nms_keep is computed: the lookup   *)
(* of `config` raises NameError when the name is unbound.                   *)
AfterNms(class_ids, class_scores, decoded_rois, refined_rois, filter_keep, nms_keep, img_shape) ==
    LET keep == SetIntersection(filter_keep, nms_keep)
    IN  IF module_globals.config = Unbound
        THEN Raised("NameError: name 'config' is not defined")
        ELSE LET top == KeepTop(keep, class_scores, module_globals.config[1])
             IN  [status |-> "returned", error |-> "",
                  class_ids |-> class_ids, class_scores |-> class_scores,
                  decoded_rois |-> decoded_rois, refined_rois |-> refined_rois,
                  filter_keep |-> filter_keep, nms_keep |-> nms_keep, keep |-> top,
                  detections |-> Detections(refined_rois, class_ids, class_scores, top, img_shape)]

(* BBoxHead._get_bboxes_single: the lookup of `deltas` raises NameError     *)
(* when the name is unbound.                                                *)
get_bboxes_single(rcnn_probs, rcnn_deltas, rois, img_shape) ==
    /\ self # NoHead
    /\ outcome.status = "none"
    /\ args' = [rcnn_probs |-> rcnn_probs, rcnn_deltas |-> rcnn_deltas, rois |-> rois, img_shape |-> img_shape]
    /\ IF module_globals.deltas = Unbound
       THEN outcome' = Raised("NameError: name 'deltas' is not defined")
       ELSE LET class_ids == ClassIds(rcnn_probs)
                class_scores == ClassScores(rcnn_probs, class_ids)
                deltas_specific == DeltasSpecific(module_globals.deltas[1], class_ids)
                decoded_rois == DecodedRois(rois, deltas_specific, self[1].target_means, self[1].target_stds)
                refined_rois == RefinedRois(decoded_rois, Window(img_shape))
                keep == FilterKeep(class_ids, class_scores, self[1].min_confidence)
            IN  \E nms_keep \in NmsKeep(keep, class_ids, class_scores, refined_rois, self[1].max_instances, self[1].nms_threshold) :
                    outcome' = AfterNms(class_ids, class_scores, decoded_rois, refined_rois, keep, nms_keep, img_shape)
    /\ UNCHANGED <<self, module_globals>>

(* BBoxHead.get_bboxes, an image at a time: _get_bboxes_single on the       *)
(* tensors of one image.                                                    *)
get_bboxes ==
    /\ self # NoHead
    /\ outcome.status = "none"
    /\ \E n \in 0..MaxRois :
         \E rcnn_probs \in [1..n -> ProbRows], rcnn_deltas \in DeltaTensors(n), rois \in [1..n -> Regions], img_shape \in ImgShapes :
            get_bboxes_single(rcnn_probs, rcnn_deltas, rois, img_shape)

(* The caller drops the result of a call; nothing of it is kept. *)
Discard ==
    /\ outcome.status # "none"
    /\ args' = NoArgs
    /\ outcome' = NoOutcome
    /\ UNCHANGED <<self, module_globals>>

Next ==
    \/ \E a \in HeadArguments : BBoxHead(a.min_confidence, a.nms_threshold, a.max_instances)
    \/ \E d \in GlobalDeltas : BindDeltas(d)
    \/ \E n \in GlobalMaxInstances : BindConfig(n)
    \/ get_bboxes
    \/ Discard

Spec == Init /\ [][Next]_vars

----------------------------------------------------------------------------
(* Properties of the result of _get_bboxes_single.                          *)

Returned == outcome.status = "returned"
Called == outcome.status # "none"

(* The thresholds of a head are in their valid ranges. *)
ValidConfig(head) == head.nms_threshold.num >= 0 /\ head.max_instances > 0

(* The clipped box and the class of the j-th detection's region. *)
BoxOf(j) == outcome.refined_rois[outcome.keep[j]]
ClassOf(j) == outcome.class_ids[outcome.keep[j]]

(* C1: no returned detection has the background class 0. *)
BackgroundExcluded ==
    Returned => \A j \in DOMAIN outcome.detections : outcome.detections[j].class_id # 0

(* A call that returned detections for an input with a background region. *)
BackgroundDropped ==
    /\ Returned
    /\ outcome.detections # <<>>
    /\ \E i \in DOMAIN outcome.class_ids : outcome.class_ids[i] = 0

(* C2: with min_confidence set, every returned detection has a score of at  *)
(* least min_confidence.                                                    *)
ConfidenceFloor ==
    (Returned /\ self[1].min_confidence # 0) =>
        \A j \in DOMAIN outcome.detections :
            outcome.detections[j].score >= self[1].min_confidence

(* A call that returned detections and dropped a non-background region of   *)
(* too low a score.                                                         *)
LowConfidenceDropped ==
    /\ Returned
    /\ self[1].min_confidence # 0
    /\ outcome.detections # <<>>
    /\ \E i \in DOMAIN outcome.class_ids :
          outcome.class_ids[i] > 0 /\ outcome.class_scores[i] < self[1].min_confidence

CardinalityWithinOwnConfig ==
    (Returned /\ ValidConfig(self[1])) =>
        Len(outcome.detections) <= self[1].max_instances

(* C5: the detections are in descending order of score, detections of equal *)
(* score in ascending order of region index, and the j-th detection carries *)
(* the score of the j-th kept region.                                       *)
OrderedByScore ==
    Returned =>
        /\ \A j \in DOMAIN outcome.detections :
              outcome.detections[j].score = outcome.class_scores[outcome.keep[j]]
        /\ \A i, j \in DOMAIN outcome.detections :
              i < j =>
                 \/ outcome.detections[i].score > outcome.detections[j].score
                 \/ /\ outcome.detections[i].score = outcome.detections[j].score
                    /\ outcome.keep[i] < outcome.keep[j]

(* Two returned detections of equal score. *)
RankedWithTie ==
    /\ Returned
    /\ \E i, j \in DOMAIN outcome.detections :
          i < j /\ outcome.detections[i].score = outcome.detections[j].score

Survivors ==
    FilterKeep(ClassIds(args.rcnn_probs),
               ClassScores(args.rcnn_probs, ClassIds(args.rcnn_probs)),
               self[1].min_confidence)

(* C7: a call of a head with a valid configuration with no region, or with  *)
(* no region passing the filter, returns an empty sequence of detections    *)
(* without an error.                                                        *)
EmptyPropagates ==
    (Called /\ ValidConfig(self[1]) /\ Survivors = <<>>) =>
        (Returned /\ outcome.detections = <<>>)

(* C8: no BBoxHead exists with a negative nms_threshold or a non-positive   *)
(* max_instances: construction rejects it.                                  *)
InvalidConfigRejected ==
    self # NoHead => ValidConfig(self[1])

(* The regions kept after the per-class suppression. *)
NmsSurvivors == Range(outcome.filter_keep) \cap Range(outcome.nms_keep)

(* C9: the suppression keeps a subset of the filtered regions; a filtered   *)
(* region is dropped only if a kept region of its class with a score at     *)
(* least as high overlaps it by more than nms_threshold, or max_instances   *)
(* regions of its class are kept; the best region of every class present is *)
(* kept.                                                                    *)
SuppressionExact ==
    Returned =>
        /\ Range(outcome.nms_keep) \subseteq Range(outcome.filter_keep)
        /\ \A i \in Range(outcome.filter_keep) \ NmsSurvivors :
              \/ \E k \in NmsSurvivors :
                    /\ outcome.class_ids[k] = outcome.class_ids[i]
                    /\ outcome.class_scores[k] >= outcome.class_scores[i]
                    /\ FracGT(IoU(outcome.refined_rois[k], outcome.refined_rois[i]),
                              self[1].nms_threshold)
              \/ Cardinality({k \in NmsSurvivors :
                                outcome.class_ids[k] = outcome.class_ids[i]})
                    >= self[1].max_instances
        /\ \A i \in Range(outcome.filter_keep) :
              \E k \in NmsSurvivors :
                  /\ outcome.class_ids[k] = outcome.class_ids[i]
                  /\ \A m \in Range(outcome.filter_keep) :
                        outcome.class_ids[m] = outcome.class_ids[i] =>
                            outcome.class_scores[m] <= outcome.class_scores[k]

(* C10: a call of a head with a valid configuration decodes every region    *)
(* with the delta its own ClassDeltas argument holds for the region's top   *)
(* class, and every detection's box, class and score are those of one       *)
(* region.                                                                  *)
TopClassDeltaOfArgument ==
    (Called /\ ValidConfig(self[1])) =>
        /\ Returned
        /\ \A i \in DOMAIN args.rois :
              outcome.decoded_rois[i] =
                  delta2bbox(args.rois[i],
                             args.rcnn_deltas[i][ArgMax(args.rcnn_probs[i]) + 1],
                             self[1].target_means, self[1].target_stds)
        /\ \A j \in DOMAIN outcome.detections :
              /\ outcome.detections[j].class_id = ArgMax(args.rcnn_probs[outcome.keep[j]])
              /\ outcome.detections[j].score =
                    args.rcnn_probs[outcome.keep[j]][outcome.detections[j].class_id + 1]
              /\ outcome.detections[j].box = ToImage(BoxOf(j), args.img_shape)

====
